---- MODULE Spec2Model ----
(***************************************************************************)
(* Ledger aggregation of contable-peru: the Income Statement and the       *)
(* Balance Sheet components, the period resolver they consume, the journal *)
(* entries page with its query hook, and the remote tables they query.     *)
(*                                                                         *)
(* Encodings.  A calendar day 'yyyy-MM-dd' is the integer yyyymmdd, whose  *)
(* order is the order of the strings; the empty string '' is 0, below      *)
(* every day.  An account code is the integer its digits spell (PCGE codes *)
(* have a fixed width, so the order is again the order of the strings).    *)
(* Amounts are whole numbers of the currency unit.  A raw column value is  *)
(* a record [tag, val]: a number, a numeric string, a non-numeric string,  *)
(* null or undefined (the column missing from the row).                    *)
(*                                                                         *)
(* The components share no state, so a behaviour follows the one that is   *)
(* mounted.                                                                *)
(***************************************************************************)
EXTENDS Integers, Sequences, FiniteSets, TLC

\* ------------------------------------------------------------------ bounds
MaxEntries == 2     \* rows of accounting_entries in the remote table
MaxLoads == 2       \* calls of a load function within one behaviour
MaxShuffled == 5    \* rows whose every reordering is tried

\* ------------------------------------------------------------ sequences
RECURSIVE SumSeq(_)
SumSeq(s) == IF s = <<>> THEN 0 ELSE Head(s) + SumSeq(Tail(s))

Reverse(s) == [i \in 1..Len(s) |-> s[Len(s) + 1 - i]]

RECURSIVE OrderBy(_, _)
\* .order(column): the rows of S in ascending order of the column
OrderBy(S, column) ==
  IF S = {} THEN <<>>
  ELSE LET m == CHOOSE x \in S : \A y \in S : x[column] <= y[column]
       IN <<m>> \o OrderBy(S \ {m}, column)

\* ------------------------------------------------------- calendar (date-fns)
Date(y, m, d) == [y |-> y, m |-> m, d |-> d]

IsLeap(y) == (y % 4 = 0 /\ y % 100 # 0) \/ y % 400 = 0

DaysInMonth(y, m) ==
  IF m = 2 THEN (IF IsLeap(y) THEN 29 ELSE 28)
  ELSE IF m \in {4, 6, 9, 11} THEN 30 ELSE 31

Min(a, b) == IF a <= b THEN a ELSE b

startOfMonth(t) == Date(t.y, t.m, 1)
\* mutant: February always 28 days long
endOfMonthNoLeap(t) == Date(t.y, t.m, IF t.m = 2 THEN 28 ELSE DaysInMonth(t.y, t.m))

endOfMonth(t) == Date(t.y, t.m, DaysInMonth(t.y, t.m))
startOfYear(t) == Date(t.y, 1, 1)
endOfYear(t) == Date(t.y, 12, 31)
startOfQuarter(t) == Date(t.y, 3 * ((t.m - 1) \div 3) + 1, 1)
endOfQuarter(t) ==
  LET m == 3 * ((t.m - 1) \div 3) + 3 IN Date(t.y, m, DaysInMonth(t.y, m))
subMonths(t, n) ==
  LET k == t.y * 12 + (t.m - 1) - n
      y == k \div 12
      m == (k % 12) + 1
  IN Date(y, m, Min(t.d, DaysInMonth(y, m)))
subYears(t, n) == Date(t.y - n, t.m, Min(t.d, DaysInMonth(t.y - n, t.m)))

\* format(d, 'yyyy-MM-dd')
format(t) == t.y * 10000 + t.m * 100 + t.d

EmptyString == 0

Periods ==
  {"current-month", "last-month", "current-quarter", "current-year",
   "last-year", "all", "next-week"}

getDateRangeFromPeriod(period, t) ==
  CASE period = "current-month" ->
         [startDate |-> format(startOfMonth(t)), endDate |-> format(endOfMonth(t))]
    [] period = "last-month" ->
         [startDate |-> format(startOfMonth(subMonths(t, 1))),
          endDate |-> format(endOfMonth(subMonths(t, 1)))]
    [] period = "current-quarter" ->
         [startDate |-> format(startOfQuarter(t)), endDate |-> format(endOfQuarter(t))]
    [] period = "current-year" ->
         [startDate |-> format(startOfYear(t)), endDate |-> format(endOfYear(t))]
    [] period = "last-year" ->
         [startDate |-> format(startOfYear(subYears(t, 1))),
          endDate |-> format(endOfYear(subYears(t, 1)))]
    [] period = "all" -> [startDate |-> EmptyString, endDate |-> EmptyString]
    [] OTHER ->
         [startDate |-> format(startOfMonth(t)), endDate |-> format(endOfMonth(t))]

\* ------------------------------------------------------------ raw numbers
Num(n) == [tag |-> "number", val |-> n]
NumStr(n) == [tag |-> "numeric-string", val |-> n]
BadStr == [tag |-> "string", val |-> 0]
Null == [tag |-> "null", val |-> 0]
Missing == [tag |-> "undefined", val |-> 0]

\* Number(v): a number, or NaN
Number(v) ==
  CASE v.tag = "number" -> [nan |-> FALSE, val |-> v.val]
    [] v.tag = "numeric-string" -> [nan |-> FALSE, val |-> v.val]
    [] v.tag = "null" -> [nan |-> FALSE, val |-> 0]
    [] OTHER -> [nan |-> TRUE, val |-> 0]

\* Number(v) || 0
NumberOrZero(v) == LET n == Number(v) IN IF n.nan \/ n.val = 0 THEN 0 ELSE n.val

\* ------------------------------------------------------------- remote data
Account(code, name, type, category) ==
  [code |-> code, name |-> name, account_type |-> type, category |-> category]

\* chart_of_accounts
ChartRows ==
  {Account(1011, "Caja", "asset", "Activo Corriente"),
   Account(3361, "Equipos", "asset", "Activo No Corriente"),
   Account(4511, "Prestamos", "liability", "Pasivo Corriente"),
   Account(5011, "Capital", "equity", "Patrimonio"),
   Account(6311, "Alquileres", "expense", "Gastos Operativos"),
   Account(6361, "Servicios", "expense", "Gastos Operativos"),
   Account(7011, "Ventas", "income", "Ingresos Operativos")}

Cash == CHOOSE a \in ChartRows : a.name = "Caja"
Equipment == CHOOSE a \in ChartRows : a.name = "Equipos"
Loan == CHOOSE a \in ChartRows : a.name = "Prestamos"
Capital == CHOOSE a \in ChartRows : a.name = "Capital"
Rent == CHOOSE a \in ChartRows : a.name = "Alquileres"
Utilities == CHOOSE a \in ChartRows : a.name = "Servicios"
Sales == CHOOSE a \in ChartRows : a.name = "Ventas"
\* an account that journal lines name and the chart does not list
Unlisted == [code |-> 9999]

\* a chart whose categories are PCGE numbers, but for one
NumberedChart ==
  {Account(1011, "Caja", "asset", "Efectivo"),
   Account(3361, "Equipos", "asset", "33"),
   Account(4511, "Prestamos", "liability", "45"),
   Account(5011, "Capital", "equity", "50"),
   Account(6311, "Alquileres", "expense", "95"),
   Account(6361, "Servicios", "expense", "94"),
   Account(7011, "Ventas", "income", "70")}

\* a chart_of_accounts with no row
NoChart == {}

Dr(a, amount) == [account_code |-> a.code, debit |-> Num(amount), credit |-> Num(0)]
Cr(a, amount) == [account_code |-> a.code, debit |-> Num(0), credit |-> Num(amount)]
Entry(id, date, business, lines) ==
  [id |-> id, date |-> date, business_id |-> business, lines |-> lines]

\* the journal entries the remote tables may hold
EntryPool ==
  {Entry(1, 20240315, "b1", <<Dr(Cash, 500), Cr(Sales, 500)>>),
   Entry(2, 20240320, "b1", <<Dr(Rent, 200), Cr(Cash, 200)>>),
   Entry(3, 20240301, "b1", <<Dr(Cash, 1000), Cr(Capital, 1000)>>),
   Entry(4, 20240331, "b2", <<Dr(Cash, 100), Cr(Loan, 100)>>),
   Entry(5, 20240401, "b1", <<Dr(Cash, 500), Cr(Sales, 500)>>),
   Entry(6, 20240229, "b1", <<Dr(Rent, 200), Cr(Cash, 200)>>),
   Entry(7, 20231105, "b2", <<Dr(Cash, 500), Cr(Sales, 500)>>),
   Entry(8, 20240320, "b1", <<Dr(Sales, 500), Cr(Cash, 500)>>),
   Entry(9, 20240318, "b2", <<Dr(Rent, 150), Cr(Cash, 100)>>),
   Entry(10, 20240310, "b1", <<Dr(Loan, 100), Cr(Cash, 100)>>),
   Entry(11, 20240312, "b1", <<Dr(Equipment, 800), Cr(Loan, 800)>>),
   Entry(12, 20240322, "b2",
         <<[account_code |-> Utilities.code, debit |-> NumStr(200), credit |-> Null],
           [account_code |-> Rent.code, debit |-> BadStr, credit |-> Num(50)],
           [account_code |-> Cash.code, debit |-> Missing, credit |-> Num(150)]>>),
   Entry(13, 20240325, "b1", <<Dr(Unlisted, 100), Cr(Cash, 100)>>),
   Entry(14, 20241210, "b1", <<Dr(Utilities, 200), Cr(Cash, 200)>>),
   Entry(15, 20250110, "b1", <<Dr(Cash, 500), Cr(Sales, 500)>>),
   Entry(16, 20241231, "b2", <<Dr(Capital, 1000), Cr(Cash, 1000)>>),
   Entry(17, 20240320, "b2", <<Dr(Cash, 200), Cr(Rent, 200)>>),
   Entry(18, 20250131, "b2", <<Dr(Rent, 200), Cr(Loan, 200)>>),
   Entry(19, 20240328, "b1", <<Dr(Cash, 700), Cr(Sales, 400), Cr(Sales, 300)>>)}

\* the entries that meet every chart: one with no line, one that moves two
\* asset and two expense accounts, and the one with malformed amounts
EdgePool ==
  {Entry(20, 20240316, "b1", <<>>),
   Entry(21, 20240305, "b1",
         <<Dr(Equipment, 800), Dr(Rent, 100), Dr(Utilities, 100), Cr(Cash, 1000)>>)}
    \cup {e \in EntryPool : e.id = 12}

\* accounting_entries
EntryRow(e) == [id |-> e.id, date |-> e.date, business_id |-> e.business_id]

\* accounting_entry_lines; id orders the rows as they were inserted
LineRows(E) ==
  UNION {{[id |-> e.id * 10 + i, entry_id |-> e.id,
           account_code |-> e.lines[i].account_code,
           debit |-> e.lines[i].debit, credit |-> e.lines[i].credit] :
            i \in 1..Len(e.lines)} : e \in E}

DatabaseWith(chart, E) ==
  [chart_of_accounts |-> chart,
   accounting_entries |-> {EntryRow(e) : e \in E},
   accounting_entry_lines |-> LineRows(E)]

Database(E) == DatabaseWith(ChartRows, E)

Databases ==
  {Database(E) : E \in {S \in SUBSET EntryPool : Cardinality(S) <= MaxEntries}}
    \cup {DatabaseWith(chart, E) :
            chart \in {ChartRows, NumberedChart, NoChart}, E \in SUBSET EdgePool}

BusinessIds == {"all", "", "b1"}

Nows == {Date(2024, 3, 25), Date(2025, 1, 31)}

\* what an awaited query resolves to: rows, { data: null, error }, or a rejection
Outcomes == {"data", "error", "throw"}

\* the order in which the rows of an unordered select arrive
RowOrders == {"ascending", "descending"}

VARIABLES
  db,                \* the remote tables
  now,               \* new Date()
  mounted,           \* the report component on screen: "none", "income", "balance"
  businessId,        \* props of the mounted component
  period,
  incomeAccounts,    \* IncomeStatement state
  expenseAccounts,
  incomeLoading,
  assetAccounts,     \* BalanceSheet state
  liabilityAccounts,
  equityAccounts,
  balanceLoading,
  loads,             \* the calls of loadIncomeStatement / loadBalanceSheet, in call order
  entriesQuery       \* useAccountingEntries: the query of the journal entries page

vars ==
  <<db, now, mounted, businessId, period, incomeAccounts, expenseAccounts,
    incomeLoading, assetAccounts, liabilityAccounts, equityAccounts,
    balanceLoading, loads, entriesQuery>>

\* ----------------------------------------------------------------- queries
\* mutant: the empty businessId taken for a business
BusinessMatchesUnlessAll(e, b) == b # "all" => e.business_id = b

\* if (businessId && businessId !== 'all') query.eq('business_id', businessId)
BusinessMatches(e, b) == (b # "" /\ b # "all") => e.business_id = b

\* chart_of_accounts .in('account_type', types) .order('code')
AccountsQuery(d, types) ==
  OrderBy({a \in d.chart_of_accounts : a.account_type \in types}, "code")

\* mutant: the start bound dropped (the Balance Sheet's query)
IncomeEntriesQueryCumulative(d, b, startDate, endDate) ==
  {e.id : e \in {r \in d.accounting_entries :
                   r.date <= endDate /\ BusinessMatches(r, b)}}

\* accounting_entries .gte('date', startDate) .lte('date', endDate) [.eq business]
IncomeEntriesQuery(d, b, startDate, endDate) ==
  {e.id : e \in {r \in d.accounting_entries :
                   r.date >= startDate /\ r.date <= endDate /\ BusinessMatches(r, b)}}

\* mutant: the end bound excluded (.lt for .lte)
BalanceEntriesQueryExclusive(d, b, endDate) ==
  {e.id : e \in {r \in d.accounting_entries :
                   r.date < endDate /\ BusinessMatches(r, b)}}

\* accounting_entries .lte('date', endDate) [.eq business]
BalanceEntriesQuery(d, b, endDate) ==
  {e.id : e \in {r \in d.accounting_entries :
                   r.date <= endDate /\ BusinessMatches(r, b)}}

\* accounting_entry_lines .in('entry_id', entryIds), in the order the rows arrive
LinesQuery(d, entryIds, order) ==
  LET rows == OrderBy({l \in d.accounting_entry_lines : l.entry_id \in entryIds}, "id")
  IN IF order = "ascending" THEN rows ELSE Reverse(rows)

\* ------------------------------------------------------------- accumulator
NoBalances == <<>>

\* balances[code] || 0
BalanceOrZero(balances, code) ==
  IF code \in DOMAIN balances THEN balances[code] ELSE 0

\* mutant: = for +=
AddLineOverwrite(balances, line) ==
  (line.account_code :> NumberOrZero(line.debit) - NumberOrZero(line.credit)) @@ balances

\* mutant: the credit side left out
AddLineDebitOnly(balances, line) ==
  LET code == line.account_code
      seeded == IF BalanceOrZero(balances, code) = 0
                THEN (code :> 0) @@ balances ELSE balances
  IN [seeded EXCEPT ![code] = @ + NumberOrZero(line.debit)]

\* mutant: a line with a field that is not a number left out whole
AddLineSkipMalformed(balances, line) ==
  IF Number(line.debit).nan \/ Number(line.credit).nan THEN balances
  ELSE LET code == line.account_code
           seeded == IF BalanceOrZero(balances, code) = 0
                     THEN (code :> 0) @@ balances ELSE balances
       IN [seeded EXCEPT ![code] = @ + NumberOrZero(line.debit) - NumberOrZero(line.credit)]

\* the body of lines.forEach
AddLine(balances, line) ==
  LET debit == NumberOrZero(line.debit)
      credit == NumberOrZero(line.credit)
      code == line.account_code
      seeded == IF BalanceOrZero(balances, code) = 0
                THEN (code :> 0) @@ balances ELSE balances
  IN [seeded EXCEPT ![code] = @ + debit - credit]

RECURSIVE ForEachLine(_, _)
ForEachLine(balances, lines) ==
  IF lines = <<>> THEN balances
  ELSE ForEachLine(AddLine(balances, Head(lines)), Tail(lines))

\* let balances = {}; if (lines) lines.forEach(...)   (Income Statement)
IncomeBalances(lines) == ForEachLine(NoBalances, lines)

\* let balances = {}; if (lines) lines.forEach(...)   (Balance Sheet)
SheetBalances(lines) == ForEachLine(NoBalances, lines)

\* ------------------------------------------------------ statement builders
AccountBalance(a, balance) ==
  [code |-> a.code, name |-> a.name, balance |-> balance, category |-> a.category]

\* mutant: > 0 for !== 0
IsPositive(a) == a.balance > 0

IsNonZero(a) == a.balance # 0

\* accounts.filter(type).map(balance).filter(balance !== 0), the balance being
\* balances[a.code] || 0 (sign 1) or -(balances[a.code] || 0) (sign -1)
Surface(accounts, type, sign, balances) ==
  LET ofType == SelectSeq(accounts, LAMBDA a : a.account_type = type)
  IN SelectSeq([i \in 1..Len(ofType) |->
                  AccountBalance(ofType[i], sign * BalanceOrZero(balances, ofType[i].code))],
               IsNonZero)

IncomeOf(accounts, balances) == Surface(accounts, "income", -1, balances)

\* mutant: expenses negated as income is
ExpensesOfNegated(accounts, balances) == Surface(accounts, "expense", -1, balances)

ExpensesOf(accounts, balances) == Surface(accounts, "expense", 1, balances)

AssetsOf(accounts, balances) == Surface(accounts, "asset", 1, balances)

\* mutant: liabilities left with their raw sign
LiabilitiesOfUnsigned(accounts, balances) == Surface(accounts, "liability", 1, balances)

LiabilitiesOf(accounts, balances) == Surface(accounts, "liability", -1, balances)

\* mutant: equity left with its raw sign
EquityOfUnsigned(accounts, balances) == Surface(accounts, "equity", 1, balances)

EquityOf(accounts, balances) == Surface(accounts, "equity", -1, balances)

\* list.reduce((sum, acc) => sum + acc.balance, 0)
TotalOf(list) == SumSeq([i \in 1..Len(list) |-> list[i].balance])

totalIncome == TotalOf(incomeAccounts)
totalExpenses == TotalOf(expenseAccounts)
netIncome == totalIncome - totalExpenses

totalAssets == TotalOf(assetAccounts)
totalLiabilities == TotalOf(liabilityAccounts)
totalEquity == TotalOf(equityAccounts)
totalLiabilitiesAndEquity == totalLiabilities + totalEquity

Abs(x) == IF x < 0 THEN -x ELSE x

\* Math.abs(totalAssets - totalLiabilitiesAndEquity) < 0.01, amounts being whole
balanced == Abs(totalAssets - totalLiabilitiesAndEquity) < 1

\* ------------------------------------------------------ category grouping
\* the body of reduce: if (!acc[item.category]) acc[item.category] = [];
\* acc[item.category].push(item).  acc lists its keys in the order they were
\* created.
GroupInto(acc, item) ==
  IF \E k \in 1..Len(acc) : acc[k].category = item.category
  THEN LET k == CHOOSE n \in 1..Len(acc) : acc[n].category = item.category
       IN [acc EXCEPT ![k].accounts = Append(@, item)]
  ELSE Append(acc, [category |-> item.category, accounts |-> <<item>>])

RECURSIVE Reduce(_, _)
\* list.reduce(..., {})
Reduce(acc, list) ==
  IF list = <<>> THEN acc ELSE Reduce(GroupInto(acc, Head(list)), Tail(list))

\* the category labels of the charts that are canonical array indices ('33'),
\* with the integer each one spells
IntegerKeys == ("33" :> 33) @@ ("45" :> 45) @@ ("50" :> 50) @@ ("70" :> 70)
                 @@ ("94" :> 94) @@ ("95" :> 95)

\* Object.entries(acc): the own keys of an object are enumerated integer keys
\* first, in ascending numeric order, then the other strings in the order
\* they were created
ObjectEntries(acc) ==
  LET integer == {[at |-> k, index |-> IntegerKeys[acc[k].category]] :
                    k \in {n \in 1..Len(acc) : acc[n].category \in DOMAIN IntegerKeys}}
      first == OrderBy(integer, "index")
  IN [i \in 1..Len(first) |-> acc[first[i].at]]
       \o SelectSeq(acc, LAMBDA g : g.category \notin DOMAIN IntegerKeys)

\* the groups as the render maps over them
Grouped(list) == ObjectEntries(Reduce(<<>>, list))

groupedIncome == Grouped(incomeAccounts)
groupedExpenses == Grouped(expenseAccounts)
groupedAssets == Grouped(assetAccounts)
groupedLiabilities == Grouped(liabilityAccounts)

\* ------------------------------------------------ the journal entries page
\* a bound the page leaves out
Undefined == -1

\* getPeriodDates of the AccountingEntries page
getPeriodDates(p, t) ==
  CASE p = "current-month" ->
         [start |-> format(startOfMonth(t)), end |-> format(endOfMonth(t))]
    [] p = "last-month" ->
         [start |-> format(startOfMonth(subMonths(t, 1))),
          end |-> format(endOfMonth(subMonths(t, 1)))]
    [] p = "current-year" ->
         [start |-> format(startOfYear(t)), end |-> format(t)]
    [] OTHER -> [start |-> Undefined, end |-> Undefined]

\* if (options.startDate), if (options.endDate): '' and undefined are falsy
Truthy(s) == s # EmptyString /\ s # Undefined

\* accounting_entries .select('*') .order('date', { ascending: false })
\*   [.eq business] [.gte start] [.lte end]
EntriesQuery(d, options) ==
  Reverse(OrderBy({r \in d.accounting_entries :
                     /\ BusinessMatches(r, options.businessId)
                     /\ Truthy(options.startDate) => r.date >= options.startDate
                     /\ Truthy(options.endDate) => r.date <= options.endDate},
                  "date"))

\* the line of an entry as the hook returns it
EntryLine(line) ==
  [id |-> line.id, account_code |-> line.account_code,
   debit |-> NumberOrZero(line.debit), credit |-> NumberOrZero(line.credit)]

\* { ...entry, lines: lines.filter(entry_id === entry.id).map(...) }
WithLines(entry, lines) ==
  LET own == SelectSeq(lines, LAMBDA l : l.entry_id = entry.id)
  IN [id |-> entry.id, date |-> entry.date, business_id |-> entry.business_id,
      lines |-> [i \in 1..Len(own) |-> EntryLine(own[i])]]

\* entries.map(entry => ...)
Combine(rows, lines) == [i \in 1..Len(rows) |-> WithLines(rows[i], lines)]

\* the totals and the badge the page derives for each entry it lists
totalDebit(entry) == SumSeq([i \in 1..Len(entry.lines) |-> entry.lines[i].debit])
totalCredit(entry) == SumSeq([i \in 1..Len(entry.lines) |-> entry.lines[i].credit])
\* mutant: a tolerance of a hundred units
isBalancedLenient(entry) == Abs(totalDebit(entry) - totalCredit(entry)) < 100

\* Math.abs(totalDebit - totalCredit) < 0.01, amounts being whole
isBalanced(entry) == Abs(totalDebit(entry) - totalCredit(entry)) < 1

\* the page is not on screen
NoQuery ==
  [pc |-> "idle", options |-> [businessId |-> "all", startDate |-> Undefined,
                               endDate |-> Undefined],
   answers |-> <<>>, rows |-> <<>>, data |-> <<>>, isLoading |-> FALSE, error |-> FALSE]

\* useAccountingEntries({ businessId, startDate: start, endDate: end })
NewQuery(b, p) ==
  [pc |-> "entries",
   options |-> [businessId |-> b, startDate |-> getPeriodDates(p, now).start,
                endDate |-> getPeriodDates(p, now).end],
   answers |-> <<>>, rows |-> <<>>, data |-> <<>>, isLoading |-> TRUE, error |-> FALSE]

\* the query function threw: error set, no data
Rejected(q) == [q EXCEPT !.pc = "done", !.isLoading = FALSE, !.error = TRUE]

\* the query function returned
Resolved(q, data) == [q EXCEPT !.pc = "done", !.isLoading = FALSE, !.data = data]

\* an awaited query settled; answers keeps what each await resolved to
Answered(q, outcome) == [q EXCEPT !.answers = Append(@, outcome)]

\* mutant: no early return for an empty result
AfterEntriesNoReturn(q, outcome, d) ==
  IF outcome # "data" THEN Rejected(Answered(q, outcome))
  ELSE [Answered(q, outcome) EXCEPT !.pc = "lines", !.rows = EntriesQuery(d, q.options)]

\* if (entriesError) throw; if (!entries || entries.length === 0) return []
AfterEntries(q, outcome, d) ==
  IF outcome # "data" THEN Rejected(Answered(q, outcome))
  ELSE LET rows == EntriesQuery(d, q.options)
       IN IF rows = <<>> THEN Resolved(Answered(q, outcome), <<>>)
          ELSE [Answered(q, outcome) EXCEPT !.pc = "lines", !.rows = rows]

\* the lines of the fetched entries, .in('entry_id', entryIds)
LinesOfRows(q, d, order) ==
  LinesQuery(d, {q.rows[i].id : i \in 1..Len(q.rows)}, order)

\* mutant: linesError not looked at, lines || [] taken for the lines
AfterLinesUnchecked(q, outcome, d, order) ==
  IF outcome = "throw" THEN Rejected(Answered(q, outcome))
  ELSE Resolved(Answered(q, outcome),
                Combine(q.rows, IF outcome = "data" THEN LinesOfRows(q, d, order) ELSE <<>>))

\* if (linesError) throw; return entriesWithLines
AfterLines(q, outcome, d, order) ==
  IF outcome # "data" THEN Rejected(Answered(q, outcome))
  ELSE Resolved(Answered(q, outcome), Combine(q.rows, LinesOfRows(q, d, order)))

\* ------------------------------------------------------------------- loads
NewLoad(b, p) ==
  [businessId |-> b, period |-> p, range |-> getDateRangeFromPeriod(p, now),
   pc |-> "accounts", accounts |-> <<>>, entryIds |-> {}, balances |-> NoBalances,
   error |-> FALSE, result |-> "pending"]

Done(load, result) == [load EXCEPT !.pc = "done", !.result = result]

InitScreen ==
  /\ mounted = "none"
  /\ businessId = "all"
  /\ period = "current-month"
  /\ incomeAccounts = <<>>
  /\ expenseAccounts = <<>>
  /\ incomeLoading = TRUE
  /\ assetAccounts = <<>>
  /\ liabilityAccounts = <<>>
  /\ equityAccounts = <<>>
  /\ balanceLoading = TRUE
  /\ loads = <<>>
  /\ entriesQuery = NoQuery

incomeVars == <<incomeAccounts, expenseAccounts, incomeLoading>>
balanceVars == <<assetAccounts, liabilityAccounts, equityAccounts, balanceLoading>>
world == <<db, now>>
props == <<mounted, businessId, period>>

\* first render of <IncomeStatement businessId period />, then its effect
MountIncomeStatement(b, p) ==
  /\ mounted = "none"
  /\ mounted' = "income"
  /\ businessId' = b
  /\ period' = p
  /\ incomeLoading' = TRUE
  /\ loads' = Append(loads, NewLoad(b, p))
  /\ UNCHANGED <<world, entriesQuery, incomeAccounts, expenseAccounts, balanceVars>>

\* first render of <BalanceSheet businessId period />, then its effect
MountBalanceSheet(b, p) ==
  /\ mounted = "none"
  /\ mounted' = "balance"
  /\ businessId' = b
  /\ period' = p
  /\ balanceLoading' = TRUE
  /\ loads' = Append(loads, NewLoad(b, p))
  /\ UNCHANGED <<world, entriesQuery, assetAccounts, liabilityAccounts, equityAccounts, incomeVars>>

\* the parent re-renders the component with another businessId or period;
\* the effect's dependencies changed, so it calls the load function again
SelectionChange(b, p) ==
  /\ mounted \in {"income", "balance"}
  /\ Len(loads) < MaxLoads
  /\ <<b, p>> # <<businessId, period>>
  /\ businessId' = b
  /\ period' = p
  /\ loads' = Append(loads, NewLoad(b, p))
  /\ IF mounted = "income"
     THEN /\ incomeLoading' = TRUE
          /\ UNCHANGED <<incomeAccounts, expenseAccounts, balanceVars>>
     ELSE /\ balanceLoading' = TRUE
          /\ UNCHANGED <<assetAccounts, liabilityAccounts, equityAccounts, incomeVars>>
  /\ UNCHANGED <<world, entriesQuery, mounted>>

\* ---- loadIncomeStatement
\* mutant: the catch without the finally
IncomeCaughtNoFinally(i) ==
  /\ loads' = [loads EXCEPT ![i] = Done([@ EXCEPT !.error = TRUE], "caught")]
  /\ UNCHANGED <<incomeAccounts, expenseAccounts, incomeLoading>>

\* catch (error) { console.error } finally { setLoading(false) }
IncomeCaught(i) ==
  /\ loads' = [loads EXCEPT ![i] = Done([@ EXCEPT !.error = TRUE], "caught")]
  /\ incomeLoading' = FALSE
  /\ UNCHANGED <<incomeAccounts, expenseAccounts>>

\* setIncomeAccounts(income); setExpenseAccounts(expenses); finally setLoading(false)
IncomeSet(i, load) ==
  /\ loads' = [loads EXCEPT ![i] = Done(load, "set")]
  /\ incomeAccounts' = IncomeOf(load.accounts, load.balances)
  /\ expenseAccounts' = ExpensesOf(load.accounts, load.balances)
  /\ incomeLoading' = FALSE

\* the chart_of_accounts query settles
IncomeAccountsFetched(i, outcome) ==
  /\ mounted = "income"
  /\ i \in 1..Len(loads)
  /\ loads[i].pc = "accounts"
  /\ CASE outcome = "throw" -> IncomeCaught(i)
       [] outcome = "error" ->
            \* if (!accounts) { setIncomeAccounts([]); setExpenseAccounts([]); return }
            /\ loads' = [loads EXCEPT ![i] = Done([@ EXCEPT !.error = TRUE], "returned")]
            /\ incomeAccounts' = <<>>
            /\ expenseAccounts' = <<>>
            /\ incomeLoading' = FALSE
       [] OTHER ->
            /\ loads' = [loads EXCEPT ![i].pc = "entries",
                                       ![i].accounts = AccountsQuery(db, {"income", "expense"})]
            /\ UNCHANGED incomeVars
  /\ UNCHANGED <<world, entriesQuery, props, balanceVars>>

\* the accounting_entries query settles
IncomeEntriesFetched(i, outcome) ==
  /\ mounted = "income"
  /\ i \in 1..Len(loads)
  /\ loads[i].pc = "entries"
  /\ IF outcome = "throw" THEN IncomeCaught(i)
     ELSE LET l == loads[i]
              \* entries?.map(e => e.id) || []
              entryIds == IF outcome = "data"
                          THEN IncomeEntriesQuery(db, l.businessId, l.range.startDate,
                                                  l.range.endDate)
                          ELSE {}
              fetched == [l EXCEPT !.entryIds = entryIds,
                                   !.error = (outcome = "error")]
          IN IF entryIds # {}
             THEN /\ loads' = [loads EXCEPT ![i] = [fetched EXCEPT !.pc = "lines"]]
                  /\ UNCHANGED incomeVars
             ELSE IncomeSet(i, fetched)
  /\ UNCHANGED <<world, entriesQuery, props, balanceVars>>

\* the accounting_entry_lines query settles
IncomeLinesFetched(i, outcome, order) ==
  /\ mounted = "income"
  /\ i \in 1..Len(loads)
  /\ loads[i].pc = "lines"
  /\ IF outcome = "throw" THEN IncomeCaught(i)
     ELSE \E balances \in {IF outcome = "data"
                             THEN IncomeBalances(LinesQuery(db, loads[i].entryIds, order))
                             ELSE NoBalances} :
            \E fetched \in {[loads[i] EXCEPT !.balances = balances,
                                             !.error = (outcome = "error")]} :
              IncomeSet(i, fetched)
  /\ UNCHANGED <<world, entriesQuery, props, balanceVars>>

\* ---- loadBalanceSheet
\* catch (error) { console.error } finally { setLoading(false) }
BalanceCaught(i) ==
  /\ loads' = [loads EXCEPT ![i] = Done([@ EXCEPT !.error = TRUE], "caught")]
  /\ balanceLoading' = FALSE
  /\ UNCHANGED <<assetAccounts, liabilityAccounts, equityAccounts>>

\* setAssetAccounts; setLiabilityAccounts; setEquityAccounts; finally setLoading(false)
BalanceSet(i, load) ==
  /\ loads' = [loads EXCEPT ![i] = Done(load, "set")]
  /\ assetAccounts' = AssetsOf(load.accounts, load.balances)
  /\ liabilityAccounts' = LiabilitiesOf(load.accounts, load.balances)
  /\ equityAccounts' = EquityOf(load.accounts, load.balances)
  /\ balanceLoading' = FALSE

\* the chart_of_accounts query settles
BalanceAccountsFetched(i, outcome) ==
  /\ mounted = "balance"
  /\ i \in 1..Len(loads)
  /\ loads[i].pc = "accounts"
  /\ CASE outcome = "throw" -> BalanceCaught(i)
       [] outcome = "error" ->
            \* if (!accounts) { set...([]); return }
            /\ loads' = [loads EXCEPT ![i] = Done([@ EXCEPT !.error = TRUE], "returned")]
            /\ assetAccounts' = <<>>
            /\ liabilityAccounts' = <<>>
            /\ equityAccounts' = <<>>
            /\ balanceLoading' = FALSE
       [] OTHER ->
            /\ loads' = [loads EXCEPT
                           ![i].pc = "entries",
                           ![i].accounts = AccountsQuery(db, {"asset", "liability", "equity"})]
            /\ UNCHANGED balanceVars
  /\ UNCHANGED <<world, entriesQuery, props, incomeVars>>

\* the accounting_entries query settles
BalanceEntriesFetched(i, outcome) ==
  /\ mounted = "balance"
  /\ i \in 1..Len(loads)
  /\ loads[i].pc = "entries"
  /\ IF outcome = "throw" THEN BalanceCaught(i)
     ELSE LET l == loads[i]
              \* entries?.map(e => e.id) || []
              entryIds == IF outcome = "data"
                          THEN BalanceEntriesQuery(db, l.businessId, l.range.endDate)
                          ELSE {}
              fetched == [l EXCEPT !.entryIds = entryIds,
                                   !.error = (outcome = "error")]
          IN IF entryIds # {}
             THEN /\ loads' = [loads EXCEPT ![i] = [fetched EXCEPT !.pc = "lines"]]
                  /\ UNCHANGED balanceVars
             ELSE BalanceSet(i, fetched)
  /\ UNCHANGED <<world, entriesQuery, props, incomeVars>>

\* the accounting_entry_lines query settles
BalanceLinesFetched(i, outcome, order) ==
  /\ mounted = "balance"
  /\ i \in 1..Len(loads)
  /\ loads[i].pc = "lines"
  /\ IF outcome = "throw" THEN BalanceCaught(i)
     ELSE \E balances \in {IF outcome = "data"
                             THEN SheetBalances(LinesQuery(db, loads[i].entryIds, order))
                             ELSE NoBalances} :
            \E fetched \in {[loads[i] EXCEPT !.balances = balances,
                                             !.error = (outcome = "error")]} :
              BalanceSet(i, fetched)
  /\ UNCHANGED <<world, entriesQuery, props, incomeVars>>

\* ---- the AccountingEntries page
\* first render: selectedBusiness 'all', selectedPeriod 'current-month'
MountAccountingEntries ==
  /\ mounted = "none"
  /\ mounted' = "entries"
  /\ businessId' = "all"
  /\ period' = "current-month"
  /\ entriesQuery' = NewQuery("all", "current-month")
  /\ UNCHANGED <<world, loads, incomeVars, balanceVars>>

\* setSelectedBusiness / setSelectedPeriod: the query key changes and the hook
\* runs the query function for the new key
SelectFilter(b, p) ==
  /\ mounted = "entries"
  /\ <<b, p>> # <<businessId, period>>
  /\ businessId' = b
  /\ period' = p
  /\ entriesQuery' = NewQuery(b, p)
  /\ UNCHANGED <<world, mounted, loads, incomeVars, balanceVars>>

\* await query: if (entriesError) throw; if (!entries || !entries.length) return []
EntriesSettled(outcome) ==
  /\ mounted = "entries"
  /\ entriesQuery.pc = "entries"
  /\ entriesQuery' = AfterEntries(entriesQuery, outcome, db)
  /\ UNCHANGED <<world, props, loads, incomeVars, balanceVars>>

\* the lines query settles: if (linesError) throw; return entriesWithLines
LinesSettled(outcome, order) ==
  /\ mounted = "entries"
  /\ entriesQuery.pc = "lines"
  /\ entriesQuery' = AfterLines(entriesQuery, outcome, db, order)
  /\ UNCHANGED <<world, props, loads, incomeVars, balanceVars>>

\* ---------------------------------------------------------- specifications
QuerySettles ==
  \E i \in 1..MaxLoads, outcome \in Outcomes :
    \/ IncomeAccountsFetched(i, outcome)
    \/ IncomeEntriesFetched(i, outcome)
    \/ \E order \in RowOrders : IncomeLinesFetched(i, outcome, order)
    \/ BalanceAccountsFetched(i, outcome)
    \/ BalanceEntriesFetched(i, outcome)
    \/ \E order \in RowOrders : BalanceLinesFetched(i, outcome, order)

\* The reports page: the selection changes while loads are in flight.
Selections == {"all", "b1"} \X {"current-month", "last-month", "all"}

Scenario == {e \in EntryPool : e.id \in {1, 2, 4}}

Init ==
  /\ InitScreen
  /\ db \in {Database(E) : E \in SUBSET Scenario}
  /\ now = Date(2024, 3, 25)

Next ==
  \/ \E s \in Selections : MountIncomeStatement(s[1], s[2])
  \/ \E s \in Selections : MountBalanceSheet(s[1], s[2])
  \/ \E s \in Selections : SelectionChange(s[1], s[2])
  \/ QuerySettles

Spec == Init /\ [][Next]_vars

\* The same page over a journal of one entry or none and two periods, every
\* awaited query settling in the end: a pending promise is resolved or
\* rejected, and its continuation runs.
FairSelections == {"all"} \X {"current-month", "last-month"}

InitFair ==
  /\ InitScreen
  /\ db \in {Database({}), Database({e \in Scenario : e.id = 1})}
  /\ now = Date(2024, 3, 25)

NextFair ==
  \/ \E s \in FairSelections : MountIncomeStatement(s[1], s[2])
  \/ \E s \in FairSelections : MountBalanceSheet(s[1], s[2])
  \/ \E s \in FairSelections : SelectionChange(s[1], s[2])
  \/ QuerySettles

SpecFair == InitFair /\ [][NextFair]_vars /\ WF_vars(QuerySettles)

\* One report, mounted once over any journal of the pool with any selection.
InitReport ==
  /\ InitScreen
  /\ db \in Databases
  /\ now \in Nows

NextReport ==
  \/ \E b \in BusinessIds, p \in Periods : MountIncomeStatement(b, p)
  \/ \E b \in BusinessIds, p \in Periods : MountBalanceSheet(b, p)
  \/ QuerySettles
  \/ MountAccountingEntries
  \/ \E b \in BusinessIds, p \in Periods : SelectFilter(b, p)
  \/ \E outcome \in Outcomes : EntriesSettled(outcome)
  \/ \E outcome \in Outcomes, order \in RowOrders : LinesSettled(outcome, order)

SpecReport == InitReport /\ [][NextReport]_vars

\* The period resolver alone: a report mounted with any token on any day of a
\* leap year, a common year, a leap century and a common century.
ResolverYears == {2000, 2023, 2024, 2100}

ResolverNows ==
  {Date(y, m, d) : y \in ResolverYears, m \in 1..12, d \in 1..31} \
    {t \in {Date(y, m, d) : y \in ResolverYears, m \in 1..12, d \in 29..31} :
       t.d > DaysInMonth(t.y, t.m)}

Tokens == Periods \cup {"", "ALL", "Current-Month", "current_month", "today"}

InitResolver ==
  /\ InitScreen
  /\ db = Database({})
  /\ now \in ResolverNows

NextResolver ==
  \/ \E p \in Tokens : MountIncomeStatement("all", p)
  \/ \E p \in Tokens : MountBalanceSheet("all", p)

SpecResolver == InitResolver /\ [][NextResolver]_vars

\* ------------------------------------------------------- what is on screen
Listing(list) == {<<list[i].code, list[i].balance>> : i \in 1..Len(list)}

Codes(list) == {list[i].code : i \in 1..Len(list)}

\* the one load of a report that was mounted and not re-selected
TheLoad == loads[1]

Finished(kind) == mounted = kind /\ Len(loads) = 1 /\ TheLoad.pc = "done"

\* every query answered with rows and the statement was set from them
Computed(kind) == Finished(kind) /\ TheLoad.result = "set" /\ ~TheLoad.error

\* ------------------------------------------------------ the ledger's sums
\* the amount a raw column value stands for
Amount(v) == IF v.tag \in {"number", "numeric-string"} THEN v.val ELSE 0

RECURSIVE Debits(_)
Debits(L) ==
  IF L = {} THEN 0
  ELSE LET l == CHOOSE x \in L : TRUE IN Amount(l.debit) + Debits(L \ {l})

RECURSIVE Credits(_)
Credits(L) ==
  IF L = {} THEN 0
  ELSE LET l == CHOOSE x \in L : TRUE IN Amount(l.credit) + Credits(L \ {l})

LinesOf(E) == {l \in db.accounting_entry_lines : l.entry_id \in {e.id : e \in E}}

LinesOn(code, E) == {l \in LinesOf(E) : l.account_code = code}

\* sum of debits less sum of credits of the lines of entries E on an account
NetMovement(code, E) == Debits(LinesOn(code, E)) - Credits(LinesOn(code, E))

Selected(e, b) == b \in {"", "all"} \/ e.business_id = b

\* entries dated on or before endDate
AsOf(b, endDate) ==
  {e \in db.accounting_entries : Selected(e, b) /\ e.date <= endDate}

\* entries dated within [startDate, endDate]
Within(b, startDate, endDate) ==
  {e \in db.accounting_entries :
     Selected(e, b) /\ startDate <= e.date /\ e.date <= endDate}

Sign(type) == IF type \in {"asset", "expense"} THEN 1 ELSE -1

ChartOf(type) == {a \in db.chart_of_accounts : a.account_type = type}

\* the accounts of a type with a non-zero net movement over E, sign-normalised
Statement(type, E) ==
  {<<a.code, Sign(type) * NetMovement(a.code, E)>> :
     a \in {c \in ChartOf(type) : NetMovement(c.code, E) # 0}}

RECURSIVE Total(_)
Total(S) ==
  IF S = {} THEN 0
  ELSE LET x == CHOOSE y \in S : TRUE IN x[2] + Total(S \ {x})

EntryIsBalanced(e) == Debits(LinesOf({e})) = Credits(LinesOf({e}))

\* ------------------------------------------------------------------ claims
\* C1: when every journal entry is internally balanced and the business
\* filter excludes no entry, a computed Balance Sheet has totalAssets equal
\* to totalLiabilities + totalEquity, so the balanced signal is true.
C1_AccountingEquation ==
  (/\ Computed("balance")
   /\ \A e \in db.accounting_entries : EntryIsBalanced(e) /\ Selected(e, businessId))
    => (totalAssets = totalLiabilitiesAndEquity /\ balanced)

\* C2: a statement computed for period 'all' lists the balances of every
\* journal entry of the selected business, whatever the entry's date.
C2_AllIsUnbounded ==
  LET everyEntry == {e \in db.accounting_entries : Selected(e, businessId)}
  IN /\ (Computed("income") /\ TheLoad.period = "all")
          => /\ Listing(incomeAccounts) = Statement("income", everyEntry)
             /\ Listing(expenseAccounts) = Statement("expense", everyEntry)
     /\ (Computed("balance") /\ TheLoad.period = "all")
          => /\ Listing(assetAccounts) = Statement("asset", everyEntry)
             /\ Listing(liabilityAccounts) = Statement("liability", everyEntry)
             /\ Listing(equityAccounts) = Statement("equity", everyEntry)

\* what the component renders from
IncomeView == [loading |-> incomeLoading, income |-> incomeAccounts,
               expenses |-> expenseAccounts]
BalanceView == [loading |-> balanceLoading, assets |-> assetAccounts,
                liabilities |-> liabilityAccounts, equity |-> equityAccounts]

\* the view of a statement that was computed and has no account to list
EmptyIncomeView == [loading |-> FALSE, income |-> <<>>, expenses |-> <<>>]
EmptyBalanceView == [loading |-> FALSE, assets |-> <<>>, liabilities |-> <<>>,
                     equity |-> <<>>]

\* C3: a load in which a fetch failed ends in an outcome that differs from a
\* successfully computed empty statement; no statement is set from it.
C3_FailureIsDistinguishable ==
  /\ (Finished("income") /\ TheLoad.error)
       => (IncomeView # EmptyIncomeView /\ TheLoad.result # "set")
  /\ (Finished("balance") /\ TheLoad.error)
       => (BalanceView # EmptyBalanceView /\ TheLoad.result # "set")

\* C4: a computed Balance Sheet lists, for each asset, liability and equity
\* account, the balance over all entries of the selected business dated on or
\* before endDate; startDate plays no part, so any period with the same
\* endDate gives the same sheet.
C4_StockScope ==
  Computed("balance") =>
    \A p \in Periods :
      LET r == getDateRangeFromPeriod(p, now)
          E == AsOf(businessId, r.endDate)
      IN r.endDate = getDateRangeFromPeriod(period, now).endDate
           => /\ Listing(assetAccounts) = Statement("asset", E)
              /\ Listing(liabilityAccounts) = Statement("liability", E)
              /\ Listing(equityAccounts) = Statement("equity", E)

\* an entry dated before the period's startDate is on the sheet
C4_Witness ==
  /\ Computed("balance")
  /\ \E e \in AsOf(businessId, TheLoad.range.endDate) :
       /\ e.date < TheLoad.range.startDate
       /\ \E x \in Listing(assetAccounts) : NetMovement(x[1], {e}) # 0

\* C5: a computed Income Statement lists, for each income and expense
\* account, the balance over the entries of the selected business dated
\* within [startDate, endDate], bounds included, and over no other entry.
C5_FlowScope ==
  Computed("income") =>
    LET r == getDateRangeFromPeriod(period, now)
        E == Within(businessId, r.startDate, r.endDate)
    IN /\ Listing(incomeAccounts) = Statement("income", E)
       /\ Listing(expenseAccounts) = Statement("expense", E)
       /\ TheLoad.entryIds = {e.id : e \in E}

\* one entry of the business is inside the range and listed, another, which
\* moves an income or expense account, is outside
C5_Witness ==
  /\ Computed("income")
  /\ incomeAccounts # <<>> \/ expenseAccounts # <<>>
  /\ \E e \in db.accounting_entries :
       /\ Selected(e, businessId)
       /\ e.id \notin TheLoad.entryIds
       /\ \E a \in ChartOf("income") \cup ChartOf("expense") : NetMovement(a.code, {e}) # 0

\* the entries a finished load accumulated
Accumulated(load) == {e \in db.accounting_entries : e.id \in load.entryIds}

TypeOf(code) == (CHOOSE a \in db.chart_of_accounts : a.code = code).account_type

\* every account of the list shows Sign(type) * (debits - credits), and the
\* list's total is the sum of these
SignedAs(list, type, E) ==
  /\ \A i \in 1..Len(list) :
       /\ TypeOf(list[i].code) = type
       /\ list[i].balance = Sign(type) * NetMovement(list[i].code, E)
  /\ TotalOf(list) = Sign(type) * (Debits(UNION {LinesOn(a.code, E) : a \in ChartOf(type)})
                                   - Credits(UNION {LinesOn(a.code, E) : a \in ChartOf(type)}))

\* C6: every balance a statement shows is +(debit - credit) for an asset or
\* expense account and -(debit - credit) for a liability, equity or income
\* account, and each total is the sum of the balances so signed.
C6_SignConvention ==
  /\ Computed("income") =>
       /\ SignedAs(incomeAccounts, "income", Accumulated(TheLoad))
       /\ SignedAs(expenseAccounts, "expense", Accumulated(TheLoad))
  /\ Computed("balance") =>
       /\ SignedAs(assetAccounts, "asset", Accumulated(TheLoad))
       /\ SignedAs(liabilityAccounts, "liability", Accumulated(TheLoad))
       /\ SignedAs(equityAccounts, "equity", Accumulated(TheLoad))

\* an asset with raw balance +100 shows +100 beside a liability with raw
\* balance -100 that shows +100
C6_Witness ==
  /\ Computed("balance")
  /\ \E i \in 1..Len(assetAccounts) :
       /\ NetMovement(assetAccounts[i].code, Accumulated(TheLoad)) = 100
       /\ assetAccounts[i].balance = 100
  /\ \E i \in 1..Len(liabilityAccounts) :
       /\ NetMovement(liabilityAccounts[i].code, Accumulated(TheLoad)) = -100
       /\ liabilityAccounts[i].balance = 100

\* E1 = 2024-03-15 cash debit 500 / sales credit 500,
\* E2 = 2024-03-20 rent debit 200 / cash credit 200
WorkedScenario ==
  /\ db = Database({e \in EntryPool : e.id \in {1, 2}})
  /\ now.y = 2024 /\ now.m = 3

\* C7: in the worked scenario the Income Statement for the current month
\* (March 2024) has totalIncome 500, totalExpenses 200 and netIncome 300, and
\* the Balance Sheet as of 2024-03-31 lists cash with 300 among the assets
\* and does not list sales.
C7_WorkedScenario ==
  WorkedScenario =>
    /\ (Computed("income") /\ period = "current-month")
         => (totalIncome = 500 /\ totalExpenses = 200 /\ netIncome = 300)
    /\ (Computed("balance") /\ TheLoad.range.endDate = 20240331)
         => /\ <<Cash.code, 300>> \in Listing(assetAccounts)
            /\ Sales.code \notin Codes(assetAccounts) \cup Codes(liabilityAccounts)
                                 \cup Codes(equityAccounts)

C7_WitnessIncome ==
  WorkedScenario /\ Computed("income") /\ period = "current-month" /\ netIncome = 300

C7_WitnessBalance ==
  /\ WorkedScenario /\ Computed("balance") /\ TheLoad.range.endDate = 20240331
  /\ <<Cash.code, 300>> \in Listing(assetAccounts)

C7_Witness == C7_WitnessIncome \/ C7_WitnessBalance

Permuted(seq, f) == [i \in 1..Len(seq) |-> seq[f[i]]]

Swap(n, i, j) == [k \in 1..n |-> IF k = i THEN j ELSE IF k = j THEN i ELSE k]

\* every reordering of n rows when n <= MaxShuffled, and beyond that every
\* exchange of two rows and the reversal
Reorderings(n) ==
  IF n <= MaxShuffled THEN Permutations(1..n)
  ELSE {Swap(n, i, j) : i, j \in 1..n} \cup {[k \in 1..n |-> n + 1 - k]}

\* the three totals of the statement built from accounts and balances
IncomeTotals(accounts, balances) ==
  LET income == TotalOf(IncomeOf(accounts, balances))
      expenses == TotalOf(ExpensesOf(accounts, balances))
  IN <<income, expenses, income - expenses>>

\* C8: netIncome is totalIncome - totalExpenses, totalIncome and
\* totalExpenses are the sums of the normalised balances of the income and
\* expense accounts, and no reordering of the fetched accounts or of the
\* fetched lines changes any of the three: the lines in any order accumulate
\* to the same balances, and the accounts in any order total the same.
C8_IncomeTotals ==
  Computed("income") =>
    LET E == Accumulated(TheLoad)
        lines == LinesQuery(db, TheLoad.entryIds, "ascending")
    IN /\ totalIncome = Total(Statement("income", E))
       /\ totalExpenses = Total(Statement("expense", E))
       /\ netIncome = Total(Statement("income", E)) - Total(Statement("expense", E))
       /\ \A g \in Reorderings(Len(lines)) :
            IncomeBalances(Permuted(lines, g)) = TheLoad.balances
       /\ \A f \in Permutations(1..Len(TheLoad.accounts)) :
            IncomeTotals(Permuted(TheLoad.accounts, f), TheLoad.balances)
              = <<totalIncome, totalExpenses, netIncome>>

\* income and expenses both listed, from several lines on one account
C8_Witness ==
  /\ Computed("income")
  /\ totalIncome # 0 /\ totalExpenses # 0 /\ netIncome # 0
  /\ \E a \in ChartOf("income") \cup ChartOf("expense") :
       Cardinality(LinesOn(a.code, Accumulated(TheLoad))) > 1

\* the lines a finished load folded into its balances
Folded(load) == IF load.error THEN {} ELSE LinesOf(Accumulated(load))

RECURSIVE SumOfBalances(_)
SumOfBalances(balances) ==
  IF DOMAIN balances = {} THEN 0
  ELSE LET c == CHOOSE x \in DOMAIN balances : TRUE
       IN balances[c] + SumOfBalances([x \in DOMAIN balances \ {c} |-> balances[x]])

\* C9: the net movements a load accumulated add up to the debits less the
\* credits of the fetched lines, and each account's net movement is the
\* debits less the credits of exactly the lines that carry its code, with no
\* sign normalisation.
C9_Conservation ==
  \A i \in 1..Len(loads) :
    loads[i].result = "set" =>
      LET lines == Folded(loads[i])
          balances == loads[i].balances
      IN /\ SumOfBalances(balances) = Debits(lines) - Credits(lines)
         /\ DOMAIN balances = {l.account_code : l \in lines}
         /\ \A c \in DOMAIN balances :
              balances[c] = Debits({l \in lines : l.account_code = c})
                             - Credits({l \in lines : l.account_code = c})

\* two lines on one account, and a line on an account the chart does not list
C9_Witness ==
  \E i \in 1..Len(loads) :
    /\ loads[i].result = "set"
    /\ \E c \in DOMAIN loads[i].balances :
         /\ Cardinality({l \in Folded(loads[i]) : l.account_code = c}) > 1
         /\ loads[i].balances[c] # 0
    /\ \E c \in DOMAIN loads[i].balances : c \notin {a.code : a \in db.chart_of_accounts}

\* an account is in the list iff it has the list's type and moved over E
ListsExactly(list, type, E) ==
  /\ \A a \in db.chart_of_accounts :
       a.code \in Codes(list) <=> (a.account_type = type /\ NetMovement(a.code, E) # 0)
  /\ Codes(list) \subseteq {a.code : a \in db.chart_of_accounts}
  /\ Cardinality(Codes(list)) = Len(list)

\* C10: an account is listed in a computed statement if and only if it has
\* one of the statement's account types and its net movement over the
\* statement's scope is not zero.
C10_ZeroBalanceExclusion ==
  /\ Computed("income") =>
       LET E == Within(businessId, TheLoad.range.startDate, TheLoad.range.endDate)
       IN /\ ListsExactly(incomeAccounts, "income", E)
          /\ ListsExactly(expenseAccounts, "expense", E)
  /\ Computed("balance") =>
       LET E == AsOf(businessId, TheLoad.range.endDate)
       IN /\ ListsExactly(assetAccounts, "asset", E)
          /\ ListsExactly(liabilityAccounts, "liability", E)
          /\ ListsExactly(equityAccounts, "equity", E)

\* one account's debits and credits cancel, another has no line in scope,
\* and a third is listed
C10_Witness ==
  /\ Computed("balance")
  /\ \E a \in ChartOf("asset") :
       /\ LinesOn(a.code, Accumulated(TheLoad)) # {}
       /\ a.code \notin Codes(assetAccounts)
  /\ \E a \in ChartOf("asset") : LinesOn(a.code, Accumulated(TheLoad)) = {}
  /\ liabilityAccounts # <<>>

\* ---- the journal entries page, as the claims see it
Listed == entriesQuery.data
ListedIds == {Listed[i].id : i \in 1..Len(Listed)}
ListingDone == mounted = "entries" /\ entriesQuery.pc = "done"
ListingSucceeded == ListingDone /\ ~entriesQuery.error

\* a day within a resolved range, an empty bound being no bound
InRange(day, range) ==
  /\ range.startDate # EmptyString => day >= range.startDate
  /\ range.endDate # EmptyString => day <= range.endDate

\* C11: for every period token the journal entries page lists the entries of
\* the selected business dated within the inclusive range the period resolver
\* assigns to the token: the whole year for current-year, the quarter and the
\* previous year for current-quarter and last-year, the current month for a
\* token the resolver does not know.
C11_ListingUsesResolverRange ==
  ListingSucceeded =>
    ListedIds = {r.id : r \in {e \in db.accounting_entries :
                                 /\ BusinessMatches(e, businessId)
                                 /\ InRange(e.date, getDateRangeFromPeriod(period, now))}}

\* ---- the calendar, as the claims see it
MonthLengths == <<31, 28, 31, 30, 31, 30, 31, 31, 30, 31, 30, 31>>

LeapFebruary(y, m) == m = 2 /\ y % 4 = 0 /\ (y % 100 = 0 => y % 400 = 0)

\* yyyymmdd names a day of the calendar
IsCalendarDay(n) ==
  LET y == n \div 10000
      m == (n \div 100) % 100
      d == n % 100
  IN /\ m \in 1..12
     /\ d >= 1
     /\ d <= MonthLengths[m] + (IF LeapFebruary(y, m) THEN 1 ELSE 0)

KnownTokens ==
  {"current-month", "last-month", "current-quarter", "current-year", "last-year", "all"}

\* C12: whatever the day, the resolver gives current-month the first and the
\* last calendar day of that day's month, gives all two empty bounds, gives a
\* token it does not know the range of current-month, and gives every token
\* a range (it never raises).
C12_PeriodResolver ==
  \A i \in 1..Len(loads) :
    LET token == loads[i].period
        range == loads[i].range
    IN /\ range \in [startDate : Nat, endDate : Nat]
       /\ token = "current-month" =>
            /\ range.startDate = now.y * 10000 + now.m * 100 + 1
            /\ range.endDate \div 100 = now.y * 100 + now.m
            /\ IsCalendarDay(range.endDate)
            /\ ~IsCalendarDay(range.endDate + 1)
       /\ token = "all" => range.startDate = EmptyString /\ range.endDate = EmptyString
       /\ token \notin KnownTokens => range = getDateRangeFromPeriod("current-month", now)

\* a report mounted on a day of a leap February, with current-month and with
\* an empty token
C12_Witness ==
  /\ loads # <<>>
  /\ now.m = 2
  /\ loads[1].range.endDate % 100 = 29
  /\ loads[1].period \in {"current-month", ""}

\* the entries of the remote table whose debits and credits differ
Unbalanced == {e \in db.accounting_entries : ~EntryIsBalanced(e)}

\* C13: every entry the journal entries page lists is shown with all its
\* lines and with a balanced badge exactly when the debits and the credits of
\* its lines differ by less than a cent, so an entry of debit 150 / credit 100
\* is listed and flagged, not rejected; and a report load that fetched such
\* an entry accumulates its lines like any other and sets the statement.
C13_UnbalancedSurfaced ==
  /\ ListingSucceeded =>
       \A i \in 1..Len(Listed) :
         LET raw == LinesOf({Listed[i]})
             shown == Listed[i].lines
         IN /\ isBalanced(Listed[i]) <=> Abs(Debits(raw) - Credits(raw)) < 1
            /\ {shown[j].id : j \in 1..Len(shown)} = {l.id : l \in raw}
            /\ Len(shown) = Cardinality(raw)
  /\ \A i \in 1..Len(loads) :
       (loads[i].pc = "done" /\ ~loads[i].error /\ Accumulated(loads[i]) \cap Unbalanced # {}) =>
         /\ loads[i].result = "set"
         /\ \A l \in LinesOf(Accumulated(loads[i]) \cap Unbalanced) :
              /\ l.account_code \in DOMAIN loads[i].balances
              /\ loads[i].balances[l.account_code] =
                   NetMovement(l.account_code, Accumulated(loads[i]))

\* the entry of debit 150 / credit 100 listed with its two lines, not balanced
C13_Witness ==
  /\ ListingSucceeded
  /\ \E i \in 1..Len(Listed) :
       /\ totalDebit(Listed[i]) = 150
       /\ totalCredit(Listed[i]) = 100
       /\ Len(Listed[i].lines) = 2
       /\ ~isBalanced(Listed[i])

\* a report load that accumulated an unbalanced entry
C13_WitnessReports ==
  \E i \in 1..Len(loads) :
    /\ loads[i].result = "set"
    /\ ~loads[i].error
    /\ Accumulated(loads[i]) \cap Unbalanced # {}

\* ---- the two filters, as the claims see them
IdsOf(E) == {e.id : e \in E}

\* the entries a business selection admits
OfBusiness(b) ==
  IF b \in {"all", ""} THEN db.accounting_entries
  ELSE {e \in db.accounting_entries : e.business_id = b}

\* the entries a date bound admits; a bound left out admits every day
From(startDate) == {e \in db.accounting_entries : e.date >= startDate}
UpTo(endDate) == {e \in db.accounting_entries : e.date <= endDate}
Bounded(startDate, endDate) ==
  (IF Truthy(startDate) THEN From(startDate) ELSE db.accounting_entries)
    \cap (IF Truthy(endDate) THEN UpTo(endDate) ELSE db.accounting_entries)

\* the entries query of load i was answered with rows
EntriesFetched(i) == loads[i].pc \in {"lines", "done"} /\ ~loads[i].error

\* C14: in the Income Statement, the Balance Sheet and the journal entries
\* page the entries used are those the business selection admits intersected
\* with those the date bound admits: a specific businessId keeps only its own
\* entries, 'all' or the empty businessId keeps every business, and the date
\* bound is the one of the period whatever the business.
C14_BusinessFilterIndependent ==
  /\ \A i \in 1..Len(loads) :
       LET l == loads[i]
       IN /\ mounted = "income" =>
               /\ l.range = getDateRangeFromPeriod(l.period, now)
               /\ EntriesFetched(i) =>
                    l.entryIds = IdsOf(OfBusiness(l.businessId)
                                         \cap From(l.range.startDate)
                                         \cap UpTo(l.range.endDate))
          /\ mounted = "balance" =>
               /\ l.range = getDateRangeFromPeriod(l.period, now)
               /\ EntriesFetched(i) =>
                    l.entryIds = IdsOf(OfBusiness(l.businessId) \cap UpTo(l.range.endDate))
  /\ mounted = "entries" =>
       /\ entriesQuery.options.businessId = businessId
       /\ entriesQuery.options.startDate = getPeriodDates(period, now).start
       /\ entriesQuery.options.endDate = getPeriodDates(period, now).end
       /\ ListingSucceeded =>
            ListedIds = IdsOf(OfBusiness(businessId)
                                \cap Bounded(entriesQuery.options.startDate,
                                             entriesQuery.options.endDate))

\* a Balance Sheet of one business that used an entry of its own and left out
\* an entry of another business dated within the bound
C14_Witness ==
  /\ mounted = "balance"
  /\ loads # <<>>
  /\ EntriesFetched(1)
  /\ loads[1].businessId = "b1"
  /\ loads[1].entryIds # {}
  /\ \E e \in UpTo(loads[1].range.endDate) : e.business_id # "b1"

\* an Income Statement with the empty businessId that used two businesses
C14_WitnessIncome ==
  /\ mounted = "income"
  /\ loads # <<>>
  /\ EntriesFetched(1)
  /\ loads[1].businessId = ""
  /\ \E e, f \in Accumulated(loads[1]) : e.business_id # f.business_id

\* a listing of one business, with a date bound, that left out an entry of
\* another business dated within the bound
C14_WitnessListing ==
  /\ ListingSucceeded
  /\ businessId = "b1"
  /\ Truthy(entriesQuery.options.endDate)
  /\ Listed # <<>>
  /\ \E e \in Bounded(entriesQuery.options.startDate, entriesQuery.options.endDate) :
       e.business_id # "b1"

\* an await of the journal entries query did not resolve to rows
FetchFailed == \E k \in 1..Len(entriesQuery.answers) : entriesQuery.answers[k] # "data"

\* C15: the journal entries query fetches the entries, then the lines of the
\* fetched entries; when either fetch fails the query ends in error with no
\* entry at all, and when neither fails every matching entry is returned with
\* every one of its lines.
C15_ListingFailsWhole ==
  ListingDone =>
    /\ entriesQuery.error <=> FetchFailed
    /\ entriesQuery.error => Listed = <<>>
    /\ ~entriesQuery.error =>
         /\ Len(entriesQuery.answers) = (IF Listed = <<>> THEN 1 ELSE 2)
         /\ ListedIds = IdsOf(OfBusiness(businessId)
                                \cap Bounded(entriesQuery.options.startDate,
                                             entriesQuery.options.endDate))
         /\ \A i \in 1..Len(Listed) :
              LET shown == Listed[i].lines
              IN /\ {shown[j].id : j \in 1..Len(shown)} = {l.id : l \in LinesOf({Listed[i]})}
                 /\ Len(shown) = Cardinality(LinesOf({Listed[i]}))

\* the entries were fetched, they have lines, and the lines fetch failed
C15_Witness ==
  /\ ListingDone
  /\ entriesQuery.error
  /\ Len(entriesQuery.answers) = 2
  /\ entriesQuery.answers[2] = "error"
  /\ LinesOf({entriesQuery.rows[i] : i \in 1..Len(entriesQuery.rows)}) # {}

\* a load that met no account, no entry in scope, or no line of the entries
EmptyScope(load) ==
  \/ load.accounts = <<>>
  \/ load.entryIds = {}
  \/ LinesOf(Accumulated(load)) = {}

\* C16: when there is no account, no entry in scope or no line, and every
\* query was answered, the Income Statement is set with empty lists and zero
\* totals, the Balance Sheet with empty lists, zero totals and a true balanced
\* signal, and the journal entries query returns an empty list without error;
\* none of them issues the lines fetch for an empty set of entry ids.
C16_EmptyStatements ==
  /\ \A i \in 1..Len(loads) : loads[i].pc = "lines" => loads[i].entryIds # {}
  /\ entriesQuery.pc = "lines" => entriesQuery.rows # <<>>
  /\ (Finished("income") /\ ~TheLoad.error /\ EmptyScope(TheLoad)) =>
       /\ TheLoad.result = "set"
       /\ incomeAccounts = <<>> /\ expenseAccounts = <<>>
       /\ totalIncome = 0 /\ totalExpenses = 0 /\ netIncome = 0
       /\ ~incomeLoading
  /\ (Finished("balance") /\ ~TheLoad.error /\ EmptyScope(TheLoad)) =>
       /\ TheLoad.result = "set"
       /\ assetAccounts = <<>> /\ liabilityAccounts = <<>> /\ equityAccounts = <<>>
       /\ totalAssets = 0 /\ totalLiabilities = 0 /\ totalEquity = 0
       /\ totalLiabilitiesAndEquity = 0
       /\ balanced
       /\ ~balanceLoading
  /\ (ListingDone /\ ~FetchFailed
        /\ OfBusiness(businessId) \cap Bounded(entriesQuery.options.startDate,
                                               entriesQuery.options.endDate) = {}) =>
       /\ ~entriesQuery.error
       /\ Listed = <<>>
       /\ Len(entriesQuery.answers) = 1

\* an Income Statement over a journal that has entries, none of them in scope
C16_Witness ==
  /\ Finished("income")
  /\ ~TheLoad.error
  /\ TheLoad.accounts # <<>>
  /\ TheLoad.entryIds = {}
  /\ db.accounting_entries # {}

\* a Balance Sheet over an entry in scope and a chart with no account
C16_WitnessNoAccounts ==
  /\ Finished("balance")
  /\ ~TheLoad.error
  /\ TheLoad.accounts = <<>>
  /\ TheLoad.balances # NoBalances

\* a Balance Sheet over an entry in scope that has no line
C16_WitnessNoLines ==
  /\ Finished("balance")
  /\ ~TheLoad.error
  /\ TheLoad.accounts # <<>>
  /\ TheLoad.entryIds # {}
  /\ LinesOf(Accumulated(TheLoad)) = {}

\* a listing over a journal that has entries, none of them in scope
C16_WitnessListing ==
  /\ ListingSucceeded
  /\ Listed = <<>>
  /\ db.accounting_entries # {}

\* ---- raw amounts, as the claims see them
\* a column value that is missing, null or not numeric
Malformed(v) == v.tag \in {"undefined", "null", "string"}

\* what a field adds to a sum: nothing when malformed
Counted(v) == IF Malformed(v) THEN 0 ELSE v.val

RECURSIVE NetCounted(_)
NetCounted(L) ==
  IF L = {} THEN 0
  ELSE LET l == CHOOSE x \in L : TRUE
       IN Counted(l.debit) - Counted(l.credit) + NetCounted(L \ {l})

HasMalformed(l) == Malformed(l.debit) \/ Malformed(l.credit)

RawLine(id) == CHOOSE l \in db.accounting_entry_lines : l.id = id

\* C17: a line whose debit or credit is missing, null or not numeric adds
\* nothing for that field and its other field in full, both to the net
\* movement of its account in a report and to the line and the totals the
\* journal entries page shows; a load that fetched such a line still sets
\* its statement.
C17_MalformedIsZero ==
  /\ \A i \in 1..Len(loads) :
       LET lines == LinesOf(Accumulated(loads[i]))
       IN (loads[i].pc = "done" /\ ~loads[i].error /\ \E l \in lines : HasMalformed(l)) =>
            /\ loads[i].result = "set"
            /\ \A l \in {x \in lines : HasMalformed(x)} :
                 BalanceOrZero(loads[i].balances, l.account_code) =
                   NetCounted({x \in lines : x.account_code = l.account_code})
  /\ ListingSucceeded =>
       \A i \in 1..Len(Listed) :
         LET shown == Listed[i].lines
         IN /\ \A j \in 1..Len(shown) :
                 /\ shown[j].debit = Counted(RawLine(shown[j].id).debit)
                 /\ shown[j].credit = Counted(RawLine(shown[j].id).credit)
            /\ totalDebit(Listed[i]) - totalCredit(Listed[i]) = NetCounted(LinesOf({Listed[i]}))

\* a load set from a line whose debit is not numeric and whose credit counts,
\* and from a line whose debit is missing
C17_Witness ==
  \E i \in 1..Len(loads) :
    /\ loads[i].result = "set"
    /\ ~loads[i].error
    /\ \E l \in LinesOf(Accumulated(loads[i])) :
         /\ l.debit.tag = "string"
         /\ Counted(l.credit) # 0
         /\ loads[i].balances[l.account_code] = -Counted(l.credit)
    /\ \E l \in LinesOf(Accumulated(loads[i])) : l.debit.tag = "undefined"
    /\ \E l \in LinesOf(Accumulated(loads[i])) : l.credit.tag = "null"

\* the same entry on the journal entries page
C17_WitnessListing ==
  /\ ListingSucceeded
  /\ \E i \in 1..Len(Listed) :
       \E l \in LinesOf({Listed[i]}) : l.debit.tag = "string" /\ Counted(l.credit) # 0

\* ---- category grouping, as the claims see it
RECURSIVE FirstSeen(_)
\* the categories of a list in the order of their first account
FirstSeen(list) ==
  IF list = <<>> THEN <<>>
  ELSE LET earlier == FirstSeen(SubSeq(list, 1, Len(list) - 1))
           last == list[Len(list)].category
       IN IF \E k \in 1..Len(earlier) : earlier[k] = last THEN earlier
          ELSE Append(earlier, last)

\* every account of the list is in one group, the group of its category, and
\* a group holds its accounts in the order of the list
GroupsPartition(list, groups) ==
  /\ \A g, h \in 1..Len(groups) : groups[g].category = groups[h].category => g = h
  /\ \A g \in 1..Len(groups) :
       /\ groups[g].accounts # <<>>
       /\ groups[g].accounts =
            SelectSeq(list, LAMBDA a : a.category = groups[g].category)
  /\ \A i \in 1..Len(list) : \E g \in 1..Len(groups) : groups[g].category = list[i].category

\* the groups come in the order their categories are first seen in the list
GroupsFirstSeen(list, groups) ==
  [g \in 1..Len(groups) |-> groups[g].category] = FirstSeen(list)

GroupedWell(list, groups) == GroupsPartition(list, groups) /\ GroupsFirstSeen(list, groups)

\* C18: the income, expense, asset and liability accounts on screen are each
\* shown in groups: every account in exactly one group, that of its category,
\* the accounts of a group in their listed order, and the groups in the order
\* their categories are first seen, whatever the labels (number-like or not).
C18_CategoryGrouping ==
  /\ GroupedWell(incomeAccounts, groupedIncome)
  /\ GroupedWell(expenseAccounts, groupedExpenses)
  /\ GroupedWell(assetAccounts, groupedAssets)
  /\ GroupedWell(liabilityAccounts, groupedLiabilities)

\* what of the above holds for any label: the partition and the order within
\* a group
C18_Partition ==
  /\ GroupsPartition(incomeAccounts, groupedIncome)
  /\ GroupsPartition(expenseAccounts, groupedExpenses)
  /\ GroupsPartition(assetAccounts, groupedAssets)
  /\ GroupsPartition(liabilityAccounts, groupedLiabilities)

\* with no number-like label on screen the groups come in first-seen order
C18_FirstSeenUnlessNumeric ==
  \A list \in {incomeAccounts, expenseAccounts, assetAccounts, liabilityAccounts} :
    (\A i \in 1..Len(list) : list[i].category \notin DOMAIN IntegerKeys) =>
      GroupsFirstSeen(list, Grouped(list))

\* ---- overlapping loads, as the claims see them
\* the load of the selection now on screen: the last one called
LatestLoad == loads[Len(loads)]

InFlight == {i \in 1..Len(loads) : loads[i].pc # "done"}

\* C19: when the selection changed while a load was in flight, then once
\* every load has completed, in whatever order (and every query of every load
\* was answered with rows), the statement on screen is the one the load of the
\* latest selection set, not that of an older load.
C19_LatestSelectionWins ==
  (Len(loads) > 1 /\ InFlight = {} /\ \A i \in 1..Len(loads) : ~loads[i].error) =>
    /\ mounted = "income" =>
         /\ incomeAccounts = IncomeOf(LatestLoad.accounts, LatestLoad.balances)
         /\ expenseAccounts = ExpensesOf(LatestLoad.accounts, LatestLoad.balances)
    /\ mounted = "balance" =>
         /\ assetAccounts = AssetsOf(LatestLoad.accounts, LatestLoad.balances)
         /\ liabilityAccounts = LiabilitiesOf(LatestLoad.accounts, LatestLoad.balances)
         /\ equityAccounts = EquityOf(LatestLoad.accounts, LatestLoad.balances)

\* C20: while a load of the mounted component is in flight its loading flag
\* is true, so no statement is rendered while the load of the selection on
\* screen is pending.
C20_LoadingCoversInFlight ==
  InFlight # {} =>
    /\ mounted = "income" => incomeLoading
    /\ mounted = "balance" => balanceLoading

\* ---- the loading flag, as the claims see it
\* the loading flag of the component on screen
Loading == IF mounted = "income" THEN incomeLoading ELSE balanceLoading

\* load i completes in this step
Completes(i) == i \in 1..Len(loads) /\ loads[i].pc # "done" /\ loads'[i].pc = "done"

\* C21: every load of the Income Statement or the Balance Sheet completes,
\* whatever its queries resolve to (rows, a null result with the early return,
\* or a rejection); the step that completes it leaves loading false; and with
\* no load in flight the component does not show the loading placeholder.
C21_LoadsTerminate ==
  /\ \A i \in 1..MaxLoads :
       (Len(loads) >= i) ~> (Len(loads) >= i /\ loads[i].pc = "done")
  /\ (loads # <<>>) ~> (InFlight = {} /\ ~Loading)
  /\ [][(\E i \in 1..MaxLoads : Completes(i)) => ~Loading']_vars
  /\ []((loads # <<>> /\ InFlight = {}) => ~Loading)

\* two loads overlapped, one ended by its early return and one in its catch,
\* and none is in flight
C21_Witness ==
  /\ Len(loads) > 1
  /\ InFlight = {}
  /\ \E i, j \in 1..Len(loads) : loads[i].result = "returned" /\ loads[j].result = "caught"
  /\ ~Loading

\* ---- the two statements over one set of entries
\* netIncome as loadIncomeStatement and the render compute it from the lines
\* of the entries ids
NetIncomeOver(ids) ==
  LET accounts == AccountsQuery(db, {"income", "expense"})
      balances == IncomeBalances(LinesQuery(db, ids, "ascending"))
  IN TotalOf(IncomeOf(accounts, balances)) - TotalOf(ExpensesOf(accounts, balances))

\* totalAssets - totalLiabilitiesAndEquity as loadBalanceSheet and the render
\* compute it from the lines of the entries ids
DiscrepancyOver(ids) ==
  LET accounts == AccountsQuery(db, {"asset", "liability", "equity"})
      balances == SheetBalances(LinesQuery(db, ids, "ascending"))
  IN TotalOf(AssetsOf(accounts, balances))
       - (TotalOf(LiabilitiesOf(accounts, balances)) + TotalOf(EquityOf(accounts, balances)))

\* entries that are each balanced and whose lines all name accounts of the chart
WellFormed(E) ==
  /\ \A e \in E : EntryIsBalanced(e)
  /\ \A l \in LinesOf(E) : l.account_code \in {a.code : a \in db.chart_of_accounts}

\* C22: over a set of entries that are each balanced and name only accounts
\* of the chart, the Balance Sheet's totalAssets - (totalLiabilities +
\* totalEquity) equals the Income Statement's total of income balances less
\* its total of expense balances over the same entries; so the sheet balances
\* exactly when the net income over the entries is zero.
C22_StatementsLinked ==
  /\ (Computed("balance") /\ WellFormed(Accumulated(TheLoad))) =>
       /\ totalAssets - totalLiabilitiesAndEquity = NetIncomeOver(TheLoad.entryIds)
       /\ balanced <=> NetIncomeOver(TheLoad.entryIds) = 0
  /\ (Computed("income") /\ WellFormed(Accumulated(TheLoad))) =>
       /\ netIncome = DiscrepancyOver(TheLoad.entryIds)
       /\ netIncome = 0 <=> DiscrepancyOver(TheLoad.entryIds) = 0

\* a Balance Sheet over two well-formed entries, off by a net income made of
\* both income and expenses
C22_Witness ==
  /\ Computed("balance")
  /\ WellFormed(Accumulated(TheLoad))
  /\ Cardinality(TheLoad.entryIds) > 1
  /\ ~balanced
  /\ \E c \in DOMAIN TheLoad.balances : TypeOf(c) = "income" /\ TheLoad.balances[c] # 0
  /\ \E c \in DOMAIN TheLoad.balances : TypeOf(c) = "expense" /\ TheLoad.balances[c] # 0

\* an Income Statement over well-formed entries with a net income that is not zero
C22_WitnessIncome ==
  /\ Computed("income")
  /\ WellFormed(Accumulated(TheLoad))
  /\ TheLoad.entryIds # {}
  /\ netIncome # 0

\* a Balance Sheet over well-formed entries that touch an income or expense
\* account and still balances, the net income over them being zero
C22_WitnessZero ==
  /\ Computed("balance")
  /\ WellFormed(Accumulated(TheLoad))
  /\ balanced
  /\ \E c \in DOMAIN TheLoad.balances : TypeOf(c) \in {"income", "expense"}

====
